---- MODULE Spec2Model ----
(***************************************************************************)
(* A model of src/dl.py (class Covid19Data): the fetch run (getData,       *)
(* getJhuData), the processing run (processData, process,                  *)
(* getStagingBlob_andArchiveCurrentTarget) over one object-storage bucket, *)
(* and the normalisation transforms processDxyCovid19Country,              *)
(* processDxyCovid19Region and convertLastUpdate.                          *)
(*                                                                         *)
(* Strings are sequences of tokens, so that concatenation is \o and the    *)
(* regular expressions of the code act on token positions.  Calendar days  *)
(* are the integers 0, 1, ... counted from the JHU start date 01-22-2020.  *)
(***************************************************************************)
EXTENDS Integers, Sequences, FiniteSets, TLC

VARIABLES
    startDate,   \* self.startDate
    endDate,     \* self.endDate
    currentDate, \* self.currentDate
    today,       \* the calendar day of the wall clock
    upstream,    \* version of the data the providers publish during a fetch run
    bucket,      \* the GCS bucket: blob name -> content, for the blobs that exist
    pc,          \* control location of the run in progress
    ran,         \* the entry point of the run in progress / last finished
    k,           \* index into Providers: the loop variable k of getData/processData
    j,           \* index into the provider's datasets: loop variable j / key
    jhuStart,    \* getJhuData: local startDate
    jhuEnd,      \* getJhuData: local endDate; process(JHU): local endDate
    jhuCur,      \* getJhuData / process(JHU): local currentDate
    fetched,     \* the URLs requested with pd.read_csv in the current fetch run
    df,          \* process: the local df (content read from staging)
    blobTarget,  \* process: the local blobTarget (blob name)
    blobArchive, \* getStagingBlob_andArchiveCurrentTarget: the local blobArchive
    archival,    \* outcome of the try block of lines 109-117 for the current dataset
    published,   \* target filenames pushed by the current processing run
    exc,         \* the exception that ended the last run ("none" if it returned)
    failures,    \* number of storage/network faults that have happened so far
    overwritten, \* history: <<target blob, content>> pairs overwritten by a publish
    allRunsOk,   \* history: no processing run raised or swallowed a storage fault
    archivedOn,  \* history: <<target blob, day>> of the archival events so far
    sameDayArchive, \* history: two archival events of one target fell on one day
    rawDf,       \* transform specifications: the input DataFrame / cell
    outDf        \* transform specifications: the result

vars == <<startDate, endDate, currentDate, today, upstream, bucket, pc, ran, k, j,
          jhuStart, jhuEnd, jhuCur, fetched, df, blobTarget, blobArchive, archival,
          published, exc, failures, overwritten, allRunsOk, archivedOn,
          sameDayArchive, rawDf, outDf>>

(***************************************************************************)
(* Bounds of the model.                                                    *)
(***************************************************************************)
MaxDay == 1
MaxVersion == 3
MaxFailures == 1

Days == 0..MaxDay
Versions == 1..MaxVersion
NoDate == -1

(***************************************************************************)
(* The source registry (class attribute sources).  A dict iterates in      *)
(* insertion order, so providers and datasets are sequences.  A URL is the *)
(* token sequence <<everything up to and including the last "/", stem,     *)
(* ".csv">>.                                                               *)
(***************************************************************************)
Providers == <<"NyTimes", "CovidTracking", "DxyCovid19", "JHU">>

sources ==
    [NyTimes |-> <<
        [key |-> "County",
         url |-> <<"https://raw.githubusercontent.com/nytimes/covid-19-data/master/",
                   "us-counties", ".csv">>] >>,
     CovidTracking |-> <<
        [key |-> "StateHistorical",
         url |-> <<"https://covidtracking.com/api/v1/states/", "daily", ".csv">>],
        [key |-> "CountryHistorical",
         url |-> <<"https://covidtracking.com/api/v1/us/", "daily", ".csv">>] >>,
     DxyCovid19 |-> <<
        [key |-> "Region",
         url |-> <<"https://raw.githubusercontent.com/BlankerL/DXY-COVID-19-Data/master/csv/",
                   "DXYArea", ".csv">>],
        [key |-> "Country",
         url |-> <<"https://raw.githubusercontent.com/BlankerL/DXY-COVID-19-Data/master/csv/",
                   "DXYOverall", ".csv">>] >>,
     JHU |-> <<
        [key |-> "ProvinceState",
         url |-> <<"https://raw.githubusercontent.com/CSSEGISandData/COVID-19/master/csse_covid_19_data/csse_covid_19_daily_reports/">>],
        [key |-> "FilenameFormat", url |-> <<"%m-%d-%Y.csv">>],
        [key |-> "StartDate", url |-> <<"01-22-2020">>] >>]

\* sources["JHU"]["StartDate"] parsed with '%m-%d-%Y' (line 201): day 0 of the calendar.
JhuStartDate == 0

\* str.lower() on the provider names of the registry.
Lower(s) ==
    CASE s = "NyTimes" -> "nytimes"
      [] s = "CovidTracking" -> "covidtracking"
      [] s = "DxyCovid19" -> "dxycovid19"
      [] s = "JHU" -> "jhu"
      [] OTHER -> s

\* date.strftime('%m-%d-%Y') (lines 156, 208) for the days of the calendar.
StrfMDY(d) ==
    <<"01-22-2020", "01-23-2020", "01-24-2020", "01-25-2020",
      "01-26-2020", "01-27-2020", "01-28-2020", "01-29-2020">>[d + 1]

\* datetime.strftime("%Y%m%d") (line 94).
StrfYMD(d) ==
    <<"20200122", "20200123", "20200124", "20200125",
      "20200126", "20200127", "20200128", "20200129">>[d + 1]

\* The folders returned by creds.storageClient() (lines 122, 176).
staging == "staging/"
target == "target/"
archive == "archive/"

\* Line 82: re.match(r'(?i).*[/]((.*)[.]csv)', url).group(1): the greedy .*[/]
\* consumes everything up to the last "/".
RegGroup1(url) == SubSeq(url, 2, Len(url))

getFilenameNoDesc(key, url, desc) == <<Lower(key), "-">> \o RegGroup1(url)

getFilename(key, url, desc) ==
    <<Lower(key)>> \o (IF desc # "" THEN <<"-", desc>> ELSE <<>>)
                   \o <<"-">> \o RegGroup1(url)

ArchiveFilenameNoDate(filename, date) ==
    SubSeq(filename, 1, Len(filename) - 1) \o <<"-", "archive", ".csv">>

\* Lines 93-95: strip the trailing ".csv" and append "-<YYYYMMDD>.csv".
ArchiveFilename(filename, date) ==
    SubSeq(filename, 1, Len(filename) - 1) \o <<"-", StrfYMD(date), ".csv">>

\* bucket.blob(folder + filename)
Blob(folder, filename) == <<folder>> \o filename

\* blob.upload_from_string(content)
Put(b, name, content) ==
    [n \in DOMAIN b \cup {name} |-> IF n = name THEN content ELSE b[n]]

(***************************************************************************)
(* Contents.  A raw snapshot names what was fetched and the upstream       *)
(* version; a canonical table is the transform's output for the raw rows   *)
(* it was computed from.                                                   *)
(***************************************************************************)
Raw(url, v) == [kind |-> "raw", data |-> << <<url, v>> >>]
EmptyDf == [kind |-> "raw", data |-> <<>>]
Canonical(d) == [kind |-> "canonical", data |-> d.data]

JhuUrl(d) == sources["JHU"][1].url \o <<StrfMDY(d), ".csv">>

\* Line 165: "jhu-" + currentDateStr + '.csv' (string literals are cut into
\* tokens at "-" and before ".csv", here and in every other name).
JhuFetchFilename(d) == <<"jhu", "-">> \o <<StrfMDY(d)>> \o <<".csv">>

\* Lines 210-211: '%s-%s.csv' % (source.lower(), currentDateStr)
JhuProcessFilename(d) == <<Lower("JHU"), "-", StrfMDY(d), ".csv">>

\* Line 197: filename = 'jhu-target.csv'
JhuTargetName == <<"jhu", "-", "target", ".csv">>

Init ==
    /\ startDate \in Days
    /\ endDate \in Days
    /\ currentDate = startDate
    /\ today = 0
    /\ upstream = 1
    /\ bucket = <<>>
    /\ pc = "idle"
    /\ ran = "none"
    /\ k = 1
    /\ j = 1
    /\ jhuStart = NoDate
    /\ jhuEnd = NoDate
    /\ jhuCur = NoDate
    /\ fetched = <<>>
    /\ df = EmptyDf
    /\ blobTarget = <<>>
    /\ blobArchive = <<>>
    /\ archival = "none"
    /\ published = <<>>
    /\ exc = "none"
    /\ failures = 0
    /\ overwritten = {}
    /\ allRunsOk = TRUE
    /\ archivedOn = {}
    /\ sameDayArchive = FALSE
    /\ rawDf = <<>>
    /\ outDf = <<>>

(***************************************************************************)
(* The clock: midnight passes between two runs.                            *)
(***************************************************************************)
Tick ==
    /\ pc = "idle"
    /\ today < MaxDay
    /\ today' = today + 1
    /\ UNCHANGED <<startDate, endDate, currentDate, upstream, bucket, pc, ran, k, j,
                   jhuStart, jhuEnd, jhuCur, fetched, df, blobTarget, blobArchive,
                   archival, published, exc, failures, overwritten, allRunsOk,
                   archivedOn, sameDayArchive, rawDf, outDf>>

(***************************************************************************)
(* The fetch run: getData (lines 121-146) and getJhuData (lines 148-173).  *)
(* Each loop iteration is one step; the iteration whose fetch or upload    *)
(* raises is its own action, taken while the fault budget lasts.           *)
(***************************************************************************)
fetchUnchanged ==
    UNCHANGED <<startDate, endDate, currentDate, today, df, blobTarget, blobArchive,
                archival, published, overwritten, allRunsOk, archivedOn,
                sameDayArchive, rawDf, outDf>>

\* getData is entered.  The providers publish version v while the run lasts;
\* they only add data, so the version never goes back.
StartGetData(v) ==
    /\ pc = "idle"
    /\ v \in {upstream, upstream + 1}
    /\ pc' = "getData"
    /\ ran' = "getData"
    /\ upstream' = v
    /\ k' = 1
    /\ j' = 1
    /\ fetched' = <<>>
    /\ exc' = "none"
    /\ UNCHANGED <<bucket, failures, jhuStart, jhuEnd, jhuCur>>
    /\ fetchUnchanged

\* The loops of lines 126 and 130 go on with the next dataset, or getData returns.
GetDataAdvance ==
    LET last == (j = Len(sources[Providers[k]]))
    IN /\ k' = IF last THEN k + 1 ELSE k
       /\ j' = IF last THEN 1 ELSE j + 1
       /\ pc' = IF last /\ k + 1 > Len(Providers) THEN "idle" ELSE "getData"

\* Lines 131-143: the dataset j of the provider k is fetched and pushed to staging.
FetchDataset ==
    /\ pc = "getData"
    /\ Providers[k] # "JHU"
    /\ LET p == Providers[k]
           ds == sources[p][j]
       IN /\ fetched' = Append(fetched, ds.url)
          /\ bucket' = Put(bucket, Blob(staging, getFilename(p, ds.url, ds.key)),
                           Raw(ds.url, upstream))
    /\ GetDataAdvance
    /\ UNCHANGED <<upstream, ran, exc, failures, jhuStart, jhuEnd, jhuCur>>
    /\ fetchUnchanged

\* A mutant of FetchDatasetFails: the exception leaves getData.
FetchDatasetFailsAbort ==
    /\ pc = "getData"
    /\ Providers[k] # "JHU"
    /\ failures < MaxFailures
    /\ failures' = failures + 1
    /\ fetched' = Append(fetched, sources[Providers[k]][j].url)
    /\ exc' = "FetchError"
    /\ pc' = "idle"
    /\ UNCHANGED <<upstream, bucket, ran, k, j, jhuStart, jhuEnd, jhuCur>>
    /\ fetchUnchanged

\* Lines 131-146 when pd.read_csv (FetchError) or upload_from_string
\* (StorageWriteError) raises: the except branch prints and the loop goes on.
FetchDatasetFails ==
    /\ pc = "getData"
    /\ Providers[k] # "JHU"
    /\ failures < MaxFailures
    /\ \E e \in {"FetchError", "StorageWriteError"} : failures' = failures + 1
    /\ fetched' = Append(fetched, sources[Providers[k]][j].url)
    /\ GetDataAdvance
    /\ UNCHANGED <<upstream, bucket, ran, exc, jhuStart, jhuEnd, jhuCur>>
    /\ fetchUnchanged

\* Line 128: getData calls getJhuData(bucket, staging, url, self.startDate,
\* self.endDate); lines 149-154 bind the locals, currentDate from self.currentDate.
GetDataCallJhu ==
    /\ pc = "getData"
    /\ Providers[k] = "JHU"
    /\ jhuStart' = startDate
    /\ jhuEnd' = endDate
    /\ jhuCur' = currentDate
    /\ pc' = "getJhuData"
    /\ UNCHANGED <<upstream, bucket, ran, k, j, fetched, exc, failures>>
    /\ fetchUnchanged

\* getJhuData called on its own with the range (sd, ed), NoDate standing for an
\* argument left at None (lines 148-154); currentDate is not passed.
CallGetJhuData(sd, ed, v) ==
    /\ pc = "idle"
    /\ v \in {upstream, upstream + 1}
    /\ ran' = "getJhuData"
    /\ upstream' = v
    /\ jhuStart' = IF sd = NoDate THEN startDate ELSE sd
    /\ jhuEnd' = IF ed = NoDate THEN endDate ELSE ed
    /\ jhuCur' = currentDate
    /\ fetched' = <<>>
    /\ exc' = "none"
    /\ pc' = "getJhuData"
    /\ UNCHANGED <<bucket, k, j, failures>>
    /\ fetchUnchanged

\* One iteration of the while loop of getJhuData (lines 155-173) whose fetch
\* and upload succeed.
JhuDay ==
    /\ pc = "getJhuData"
    /\ jhuCur <= jhuEnd
    /\ fetched' = Append(fetched, JhuUrl(jhuCur))
    /\ bucket' = Put(bucket, Blob(staging, JhuFetchFilename(jhuCur)),
                     Raw(JhuUrl(jhuCur), upstream))
    /\ jhuCur' = jhuCur + 1
    /\ UNCHANGED <<upstream, pc, ran, k, j, exc, failures, jhuStart, jhuEnd>>
    /\ fetchUnchanged

\* The iteration whose fetch or upload raises: except prints, finally advances.
JhuDayFails ==
    /\ pc = "getJhuData"
    /\ jhuCur <= jhuEnd
    /\ failures < MaxFailures
    /\ \E e \in {"FetchError", "StorageWriteError"} : failures' = failures + 1
    /\ fetched' = Append(fetched, JhuUrl(jhuCur))
    /\ jhuCur' = jhuCur + 1
    /\ UNCHANGED <<upstream, bucket, pc, ran, k, j, exc, jhuStart, jhuEnd>>
    /\ fetchUnchanged

\* The while loop of getJhuData ends and the call returns; in getData the outer
\* loop of line 126 goes on with the next provider.
JhuReturn ==
    /\ pc = "getJhuData"
    /\ jhuCur > jhuEnd
    /\ pc' = IF ran = "getData" /\ k + 1 <= Len(Providers) THEN "getData" ELSE "idle"
    /\ k' = IF pc' = "getData" THEN k + 1 ELSE 1
    /\ jhuStart' = NoDate
    /\ jhuEnd' = NoDate
    /\ jhuCur' = NoDate
    /\ UNCHANGED <<upstream, bucket, ran, j, fetched, exc, failures>>
    /\ fetchUnchanged

(***************************************************************************)
(* The processing run: processData (lines 175-181), process (lines         *)
(* 183-262) and getStagingBlob_andArchiveCurrentTarget (lines 88-119).     *)
(* When a run ends, by a return or by an exception, its locals are gone.   *)
(***************************************************************************)
processUnchanged ==
    UNCHANGED <<startDate, endDate, currentDate, today, upstream, fetched, jhuStart,
                ran, rawDf, outDf>>

StartProcessData ==
    /\ pc = "idle"
    /\ pc' = "process"
    /\ k' = 1
    /\ j' = 1
    /\ published' = <<>>
    /\ exc' = "none"
    /\ archival' = "none"
    /\ ran' = "processData"
    /\ UNCHANGED <<startDate, endDate, currentDate, today, upstream, fetched, jhuStart,
                   rawDf, outDf>>
    /\ UNCHANGED <<bucket, df, blobTarget, blobArchive, failures, overwritten,
                   allRunsOk, archivedOn, sameDayArchive, jhuEnd, jhuCur>>

\* The exception e leaves process and processData.
Raise(e) ==
    /\ exc' = e
    /\ pc' = "idle"
    /\ allRunsOk' = FALSE
    /\ k' = 1
    /\ j' = 1
    /\ df' = EmptyDf
    /\ blobTarget' = <<>>
    /\ blobArchive' = <<>>
    /\ archival' = "none"
    /\ jhuEnd' = NoDate
    /\ jhuCur' = NoDate

\* getStagingBlob_andArchiveCurrentTarget(bucket, staging, target, archive,
\* filename, getStaging) when the storage service answers every request: the
\* read of the staging blob (lines 100-105) is not guarded, so a missing blob
\* raises out of process and processData; the try block of lines 109-117
\* archives the current target, or skips the archival when there is none.
GetStagingBlob(filename, getStaging) ==
    LET bs == Blob(staging, filename)
        bt == Blob(target, filename)
        ba == Blob(archive, ArchiveFilename(filename, today))
    IN /\ failures' = failures
       /\ \/ /\ getStaging
             /\ bs \notin DOMAIN bucket
             /\ Raise("StagingNotFound")
             /\ UNCHANGED <<bucket, archivedOn, sameDayArchive>>
          \/ /\ getStaging => bs \in DOMAIN bucket
             /\ bt \notin DOMAIN bucket
             /\ df' = IF getStaging THEN bucket[bs] ELSE EmptyDf
             /\ blobTarget' = bt
             /\ blobArchive' = ba
             /\ archival' = "absent"
             /\ UNCHANGED <<bucket, exc, allRunsOk, archivedOn, sameDayArchive>>
          \/ /\ getStaging => bs \in DOMAIN bucket
             /\ bt \in DOMAIN bucket
             /\ df' = IF getStaging THEN bucket[bs] ELSE EmptyDf
             /\ blobTarget' = bt
             /\ blobArchive' = ba
             /\ bucket' = Put(bucket, ba, bucket[bt])
             /\ archival' = "archived"
             /\ archivedOn' = archivedOn \cup {<<bt, today>>}
             /\ sameDayArchive' = (sameDayArchive \/ <<bt, today>> \in archivedOn)
             /\ UNCHANGED <<exc, allRunsOk>>

\* The same function when one request fails although the blob exists: the
\* staging download raises (line 101, not guarded), or the target download
\* (line 110) or the archive upload (line 111) raises inside the try block,
\* whose except branch (lines 115-117) reports "Archival Skipped" and goes on.
GetStagingBlobFault(filename, getStaging) ==
    LET bs == Blob(staging, filename)
        bt == Blob(target, filename)
        ba == Blob(archive, ArchiveFilename(filename, today))
    IN /\ failures < MaxFailures
       /\ failures' = failures + 1
       /\ UNCHANGED <<bucket, archivedOn, sameDayArchive>>
       /\ \/ /\ getStaging
             /\ bs \in DOMAIN bucket
             /\ Raise("StorageReadError")
          \/ /\ getStaging => bs \in DOMAIN bucket
             /\ bt \in DOMAIN bucket
             /\ df' = IF getStaging THEN bucket[bs] ELSE EmptyDf
             /\ blobTarget' = bt
             /\ blobArchive' = ba
             /\ archival' = "readFailed"
             /\ allRunsOk' = FALSE
             /\ exc' = exc
          \/ /\ getStaging => bs \in DOMAIN bucket
             /\ bt \in DOMAIN bucket
             /\ df' = IF getStaging THEN bucket[bs] ELSE EmptyDf
             /\ blobTarget' = bt
             /\ blobArchive' = ba
             /\ archival' = "writeFailed"
             /\ allRunsOk' = FALSE
             /\ exc' = exc

\* Lines 247-252: the next dataset of a provider other than JHU.
ProcessDataset ==
    /\ pc = "process"
    /\ Providers[k] # "JHU"
    /\ LET p == Providers[k]
           ds == sources[p][j]
       IN GetStagingBlob(getFilename(p, ds.url, ds.key), TRUE)
    /\ IF exc' = exc
       THEN pc' = "publish" /\ UNCHANGED <<k, j, jhuEnd, jhuCur>>
       ELSE TRUE
    /\ UNCHANGED <<published, overwritten>>
    /\ processUnchanged

ProcessDatasetFault ==
    /\ pc = "process"
    /\ Providers[k] # "JHU"
    /\ LET p == Providers[k]
           ds == sources[p][j]
       IN GetStagingBlobFault(getFilename(p, ds.url, ds.key), TRUE)
    /\ IF exc' = exc
       THEN pc' = "publish" /\ UNCHANGED <<k, j, jhuEnd, jhuCur>>
       ELSE TRUE
    /\ UNCHANGED <<published, overwritten>>
    /\ processUnchanged

\* The transform and blobTarget.upload_from_string(df.to_csv()) (lines 255-261
\* and 236-242): the target blob is overwritten with the canonical table.
PushToTarget(filename) ==
    /\ bucket' = Put(bucket, blobTarget, Canonical(df))
    /\ published' = Append(published, filename)
    /\ overwritten' = overwritten \cup
           (IF blobTarget \in DOMAIN bucket
            THEN {<<blobTarget, bucket[blobTarget]>>} ELSE {})
    /\ df' = EmptyDf
    /\ blobTarget' = <<>>
    /\ blobArchive' = <<>>
    /\ archival' = "none"
    /\ jhuEnd' = NoDate
    /\ jhuCur' = NoDate
    /\ UNCHANGED <<exc, failures, allRunsOk>>

\* The same lines when the transform or the upload raises.
PushToTargetFails ==
    /\ failures < MaxFailures
    /\ failures' = failures + 1
    /\ \E e \in {"TransformError", "StorageWriteError"} : Raise(e)
    /\ UNCHANGED <<bucket, published, overwritten>>

\* The loops of lines 247 and 180 go on with the next dataset, or processData
\* returns.
ProcessAdvance ==
    LET last == (j = Len(sources[Providers[k]]) \/ Providers[k] = "JHU")
    IN /\ pc' = IF last /\ k + 1 > Len(Providers) THEN "idle" ELSE "process"
       /\ k' = IF pc' = "idle" THEN 1 ELSE IF last THEN k + 1 ELSE k
       /\ j' = IF last THEN 1 ELSE j + 1

\* Lines 254-262.
Publish ==
    /\ pc = "publish"
    /\ LET p == Providers[k]
           ds == sources[p][j]
       IN PushToTarget(getFilename(p, ds.url, ds.key))
    /\ ProcessAdvance
    /\ UNCHANGED <<archivedOn, sameDayArchive>>
    /\ processUnchanged

PublishFails ==
    /\ pc = "publish"
    /\ PushToTargetFails
    /\ UNCHANGED <<archivedOn, sameDayArchive>>
    /\ processUnchanged

\* Lines 195-206: process(source='JHU') archives the current target and starts
\* the loop over the days from the start date of the registry to today.
ProcessJhu ==
    /\ pc = "process"
    /\ Providers[k] = "JHU"
    /\ GetStagingBlob(JhuTargetName, FALSE)
    /\ pc' = "processJHU"
    /\ jhuCur' = JhuStartDate
    /\ jhuEnd' = today
    /\ UNCHANGED <<k, j, published, overwritten>>
    /\ processUnchanged

ProcessJhuFault ==
    /\ pc = "process"
    /\ Providers[k] = "JHU"
    /\ GetStagingBlobFault(JhuTargetName, FALSE)
    /\ pc' = "processJHU"
    /\ jhuCur' = JhuStartDate
    /\ jhuEnd' = today
    /\ UNCHANGED <<k, j, published, overwritten>>
    /\ processUnchanged

\* One iteration of the while loop of lines 207-233: the day's staging blob is
\* appended to df, or the day is skipped when the blob does not exist.
ProcessJhuDay ==
    /\ pc = "processJHU"
    /\ jhuCur <= jhuEnd
    /\ LET bs == Blob(staging, JhuProcessFilename(jhuCur))
       IN \/ /\ bs \in DOMAIN bucket
             /\ df' = [df EXCEPT !.data = @ \o bucket[bs].data]
          \/ /\ bs \notin DOMAIN bucket
             /\ df' = df
    /\ jhuCur' = jhuCur + 1
    /\ UNCHANGED <<bucket, pc, k, j, blobTarget, blobArchive, archival,
                   published, exc, failures, overwritten, allRunsOk, archivedOn,
                   sameDayArchive, jhuEnd>>
    /\ processUnchanged

\* The iteration whose download raises for a blob that exists (lines 215-225).
ProcessJhuDayFails ==
    /\ pc = "processJHU"
    /\ jhuCur <= jhuEnd
    /\ Blob(staging, JhuProcessFilename(jhuCur)) \in DOMAIN bucket
    /\ failures < MaxFailures
    /\ failures' = failures + 1
    /\ allRunsOk' = FALSE
    /\ jhuCur' = jhuCur + 1
    /\ UNCHANGED <<bucket, pc, k, j, df, blobTarget, blobArchive, archival,
                   published, exc, overwritten, archivedOn, sameDayArchive, jhuEnd>>
    /\ processUnchanged

\* Lines 235-237 when no day was read: processJHUProvinceState raises on the
\* DataFrame without columns (df.Lat, line 279).
PublishJhuEmpty ==
    /\ pc = "processJHU"
    /\ jhuCur > jhuEnd
    /\ df.data = <<>>
    /\ Raise("TransformError")
    /\ UNCHANGED <<bucket, published, overwritten, failures, archivedOn,
                   sameDayArchive>>
    /\ processUnchanged

\* Lines 235-245: the loop has ended; transform, push to the target, return.
PublishJhu ==
    /\ pc = "processJHU"
    /\ jhuCur > jhuEnd
    /\ df.data # <<>>
    /\ PushToTarget(JhuTargetName)
    /\ ProcessAdvance
    /\ UNCHANGED <<archivedOn, sameDayArchive>>
    /\ processUnchanged

PublishJhuFails ==
    /\ pc = "processJHU"
    /\ jhuCur > jhuEnd
    /\ df.data # <<>>
    /\ PushToTargetFails
    /\ UNCHANGED <<archivedOn, sameDayArchive>>
    /\ processUnchanged

(***************************************************************************)
(* Specifications of the storage pipeline.                                 *)
(*   SpecFetch     getData runs, with faults;                              *)
(*   SpecJhu       the same and calls of getJhuData on its own;            *)
(*   SpecPipeline  fetch and processing runs over the days, the storage    *)
(*                 service and the providers answering every request;      *)
(*   Spec          fetch and processing runs with faults.                  *)
(***************************************************************************)
FetchSteps ==
    \/ \E v \in Versions : StartGetData(v)
    \/ FetchDataset
    \/ GetDataCallJhu
    \/ JhuDay
    \/ JhuReturn

FetchFaults ==
    \/ FetchDatasetFails
    \/ JhuDayFails

ProcessSteps ==
    \/ StartProcessData
    \/ ProcessDataset
    \/ Publish
    \/ ProcessJhu
    \/ ProcessJhuDay
    \/ PublishJhuEmpty
    \/ PublishJhu

ProcessFaults ==
    \/ ProcessDatasetFault
    \/ PublishFails
    \/ ProcessJhuFault
    \/ ProcessJhuDayFails
    \/ PublishJhuFails

NextFetch == FetchSteps \/ FetchFaults

NextJhu ==
    \/ FetchSteps
    \/ FetchFaults
    \/ \E sd \in Days \cup {NoDate}, ed \in Days \cup {NoDate}, v \in Versions :
          CallGetJhuData(sd, ed, v)

NextPipeline == Tick \/ FetchSteps \/ ProcessSteps

Next == Tick \/ FetchSteps \/ FetchFaults \/ ProcessSteps \/ ProcessFaults

SpecFetch == Init /\ [][NextFetch]_vars

SpecJhu == Init /\ [][NextJhu]_vars

SpecPipeline == Init /\ [][NextPipeline]_vars

Spec == Init /\ [][Next]_vars

(***************************************************************************)
(* The transforms.  A transform specification reads an input (rawDf), then *)
(* applies the transform once (outDf, or the exception in exc); the bucket *)
(* and the runs stay as constructed.                                       *)
(***************************************************************************)
MaxRows == 3
MaxDate == 2
MaxTime == 1
MaxZip == 2

Counts == {80, 100, 120}

\* An updateTime 'YYYY-MM-DD HH:MM:SS' is <<day, time of day>>; strings of this
\* one format compare as their <<day, time>> pairs do.
UpdateTimes == (0..MaxDate) \X (0..MaxTime)

TimeLeq(a, b) == a[1] < b[1] \/ (a[1] = b[1] /\ a[2] <= b[2])

\* Lines 355, 378: pd.to_datetime(df.updateTime, format=...).dt.date
ToDate(updateTime) == updateTime[1]

InitTransform(name) ==
    /\ startDate = 0
    /\ endDate = 0
    /\ currentDate = 0
    /\ today = 0
    /\ upstream = 1
    /\ bucket = <<>>
    /\ pc = "read"
    /\ ran = name
    /\ k = 1
    /\ j = 1
    /\ jhuStart = NoDate
    /\ jhuEnd = NoDate
    /\ jhuCur = NoDate
    /\ fetched = <<>>
    /\ df = EmptyDf
    /\ blobTarget = <<>>
    /\ blobArchive = <<>>
    /\ archival = "none"
    /\ published = <<>>
    /\ exc = "none"
    /\ failures = 0
    /\ overwritten = {}
    /\ allRunsOk = TRUE
    /\ archivedOn = {}
    /\ sameDayArchive = FALSE
    /\ outDf = <<>>

transformUnchanged ==
    UNCHANGED <<startDate, endDate, currentDate, today, upstream, bucket, ran, k, j,
                jhuStart, jhuEnd, jhuCur, fetched, df, blobTarget, blobArchive,
                archival, published, failures, overwritten, allRunsOk, archivedOn,
                sameDayArchive>>

(***************************************************************************)
(* processDxyCovid19Country (lines 345-368).  The DataFrame is the         *)
(* sequence of its rows; of the five count columns, which the transform    *)
(* carries alike, the model keeps confirmedCount.                          *)
(***************************************************************************)
CountryRows == [updateTime : UpdateTimes, confirmedCount : Counts]

\* Series.max() of the ordered categorical updateTime of a group.
MaxUpdateTime(g) ==
    CHOOSE m \in {g[i].updateTime : i \in 1..Len(g)} :
        \A i \in 1..Len(g) : TimeLeq(g[i].updateTime, m)

\* Lines 360-361: df[df.updateTime == df.updateTime.max()]
chooseLatestRow(g) ==
    LET latest(r) == r.updateTime = MaxUpdateTime(g)
    IN IF g = <<>> THEN <<>> ELSE SelectSeq(g, latest)

\* Line 363: df.groupby(['date']).apply(chooseLatestRow): the groups in the
\* order of their dates, from the date d on.
RECURSIVE GroupByDateApply(_, _)
GroupByDateApply(rows, d) ==
    IF d > MaxDate THEN <<>>
    ELSE LET inGroup(r) == r.date = d
         IN chooseLatestRow(SelectSeq(rows, inGroup)) \o GroupByDateApply(rows, d + 1)

processDxyCovid19Country(rows) ==
    LET renamed == [i \in 1..Len(rows) |->
                       [confirmed |-> rows[i].confirmedCount,
                        updateTime |-> rows[i].updateTime,
                        date |-> ToDate(rows[i].updateTime)]]
        latest == GroupByDateApply(renamed, 0)
    IN [i \in 1..Len(latest) |->
           [date |-> latest[i].date, confirmed |-> latest[i].confirmed]]

InitCountry == InitTransform("processDxyCovid19Country") /\ rawDf = <<>>

\* One more row of DXYOverall.csv is read into the DataFrame.
ReadCountryRow ==
    /\ pc = "read"
    /\ Len(rawDf) < MaxRows
    /\ \E r \in CountryRows : rawDf' = Append(rawDf, r)
    /\ UNCHANGED <<pc, exc, outDf>>
    /\ transformUnchanged

\* Line 257: df = self.processDxyCovid19Country(df)
ApplyCountry ==
    /\ pc = "read"
    /\ rawDf # <<>>
    /\ outDf' = processDxyCovid19Country(rawDf)
    /\ pc' = "done"
    /\ UNCHANGED <<exc, rawDf>>
    /\ transformUnchanged

NextCountry == ReadCountryRow \/ ApplyCountry

SpecCountry == InitCountry /\ [][NextCountry]_vars

(***************************************************************************)
(* processDxyCovid19Region (lines 370-402).  The DataFrame is the set of   *)
(* its rows: every stage is a groupby aggregation, which looks neither at  *)
(* the order of the rows nor at a row that is there twice (the first stage *)
(* takes a max).  The model keeps the count column province_confirmedCount *)
(* and the keys country, province, province_zipCode and updateTime; the    *)
(* continent is the same in all rows of the one valid country.             *)
(***************************************************************************)
Regions ==
    {<<"China", "Anhui">>, <<"China", "China">>, <<"China", "Hubei">>,
     <<"Italy", "Lombardia">>}

\* Line 379.
validCountries == {"China"}

\* The order of strings, for the provinces of the inputs.
ProvinceRank(p) ==
    CASE p = "Anhui" -> 1
      [] p = "China" -> 2
      [] p = "Hubei" -> 3
      [] p = "Lombardia" -> 4

RegionRows ==
    {[country |-> cp[1], province |-> cp[2], province_zipCode |-> z,
      updateTime |-> u, province_confirmedCount |-> c] :
        cp \in Regions, z \in 1..MaxZip, u \in UpdateTimes, c \in Counts}

\* A missing value of a float column.
NaN == -1

RECURSIVE SetMax(_)
SetMax(S) ==
    LET x == CHOOSE y \in S : TRUE
    IN IF S = {x} THEN x
       ELSE LET m == SetMax(S \ {x}) IN IF x > m THEN x ELSE m

RECURSIVE SetSum(_)
SetSum(S) ==
    IF S = {} THEN 0
    ELSE LET x == CHOOSE y \in S : TRUE IN x[2] + SetSum(S \ {x})

\* Lines 380-385: max over the rows of one (continent, country, province,
\* province_zipCode, date, updateTime).
RegionStage1(rows) ==
    LET valid == {r \in rows : r.country \in validCountries}
        keys == {<<r.country, r.province, r.province_zipCode, r.updateTime>> :
                    r \in valid}
    IN {[country |-> key[1], province |-> key[2], province_zipCode |-> key[3],
         updateTime |-> key[4],
         province_confirmedCount |->
             SetMax({r.province_confirmedCount : r \in
                 {q \in valid : <<q.country, q.province, q.province_zipCode,
                                  q.updateTime>> = key}})] : key \in keys}

\* Lines 385-390: sum over the zip codes of one (continent, country, province,
\* date, updateTime).
RegionStage2(rows) ==
    LET keys == {<<r.country, r.province, r.updateTime>> : r \in rows}
    IN {[country |-> key[1], province |-> key[2], updateTime |-> key[3],
         date |-> ToDate(key[3]),
         province_confirmedCount |->
             SetSum({<<r.province_zipCode, r.province_confirmedCount>> : r \in
                 {q \in rows : <<q.country, q.province, q.updateTime>> = key}})] :
        key \in keys}

\* Lines 392-399: the key columns become categoricals, the rows of the
\* province 'China' are dropped, and the max is taken over the update times of
\* one (continent, country, province, date).  With observed=False, the default
\* of pandas before 3.0, the result has a row for every combination of the
\* categories, NaN where no row was grouped; the categories are those of the
\* columns before the rows were dropped.  The result is in the order of its
\* index: the function from 1..n to <<country, province, date, count>>.
RegionStage3(rows, observed) ==
    LET kept == {r \in rows : r.province # "China"}
        seen == {<<r.country, r.province, r.date>> : r \in kept}
        index == IF observed THEN seen
                 ELSE {r.country : r \in rows} \X {r.province : r \in rows}
                          \X {r.date : r \in rows}
        Before(a, b) ==
            \/ ProvinceRank(a[2]) < ProvinceRank(b[2])
            \/ (a[2] = b[2] /\ a[3] < b[3])
        Value(key) ==
            IF key \in seen
            THEN SetMax({r.province_confirmedCount : r \in
                     {q \in kept : <<q.country, q.province, q.date>> = key}})
            ELSE NaN
    IN [i \in 1..Cardinality(index) |->
           LET key == CHOOSE x \in index :
                          Cardinality({y \in index : Before(y, x)}) = i - 1
           IN [country |-> key[1], province |-> key[2], date |-> key[3],
               province_confirmedCount |-> Value(key)]]

\* Line 400: DataFrame.ffill(): a NaN takes the last value above it in the frame.
ffill(frame) ==
    [i \in 1..Len(frame) |->
        LET above == {n \in 1..i : frame[n].province_confirmedCount # NaN}
        IN IF above = {} THEN frame[i]
           ELSE [frame[i] EXCEPT !.province_confirmedCount =
                    frame[SetMax(above)].province_confirmedCount]]

\* Line 400: .groupby(['continent', 'country', 'province', 'date']).cummax():
\* the running max over the rows of one group, in the order of the frame.
GroupCummax(frame) ==
    [i \in 1..Len(frame) |->
        LET group == {n \in 1..i :
                         /\ frame[n].country = frame[i].country
                         /\ frame[n].province = frame[i].province
                         /\ frame[n].date = frame[i].date
                         /\ frame[n].province_confirmedCount # NaN}
        IN IF frame[i].province_confirmedCount = NaN \/ group = {} THEN frame[i]
           ELSE [frame[i] EXCEPT !.province_confirmedCount =
                    SetMax({frame[n].province_confirmedCount : n \in group})]]

processDxyCovid19Region(rows, observed) ==
    GroupCummax(ffill(RegionStage3(RegionStage2(RegionStage1(rows)), observed)))

InitRegion == InitTransform("processDxyCovid19Region") /\ rawDf = {}

\* One more row of DXYArea.csv is read into the DataFrame.
ReadRegionRow ==
    /\ pc = "read"
    /\ Cardinality(rawDf) < MaxRows
    /\ \E r \in RegionRows : rawDf' = rawDf \cup {r}
    /\ UNCHANGED <<pc, exc, outDf>>
    /\ transformUnchanged

\* Line 257: df = self.processDxyCovid19Region(df), under either default of
\* the installed pandas for the grouping of categoricals.
ApplyRegion ==
    /\ pc = "read"
    /\ \E observed \in BOOLEAN : outDf' = processDxyCovid19Region(rawDf, observed)
    /\ pc' = "done"
    /\ UNCHANGED <<exc, rawDf>>
    /\ transformUnchanged

NextRegion == ReadRegionRow \/ ApplyRegion

SpecRegion == InitRegion /\ [][NextRegion]_vars

(***************************************************************************)
(* convertLastUpdate (lines 287-308) on one row of the JHU DataFrame, with *)
(* the coalescing of line 274.  A cell is a str or the float NaN of an     *)
(* empty cell.  A string is the sequence of its tokens: at the odd         *)
(* positions a run of digits <<number of digits, value>>, at the even      *)
(* positions the one character between two runs.                           *)
(***************************************************************************)
DateRuns == {<<1, 1>>, <<2, 2>>, <<2, 13>>, <<2, 20>>, <<2, 31>>, <<4, 2020>>}
TimeRuns == {<<1, 5>>, <<2, 10>>, <<2, 60>>}
DateSeps == {"/", "-"}
TimeSeps == {" ", "T"}

\* The string of a date, a time of day with or without seconds, and the
\* characters ds and ts.
MkString(d, ds, ts, t) ==
    <<d[1], ds, d[2], ds, d[3], ts, t[1]>>
    \o <<":", t[2]>> \o (IF Len(t) = 3 THEN <<":", t[3]>> ELSE <<>>)

Str(s) == [type |-> "str", s |-> s]
FloatNaN == [type |-> "float", s |-> <<>>]

\* The rows: 'Last Update' of the reports before the change of format,
\* 'Last_Update' of those after it, the other column empty; a row with both
\* columns empty; a row with both filled.
Layouts == {"old", "new", "both", "neither"}

JhuRow(layout, s) ==
    [LastUpdateOld |->
         CASE layout = "old" -> Str(s)
           [] layout = "both" -> Str(MkString(<<<<1, 1>>, <<2, 20>>, <<2, 20>>>>,
                                              "/", " ", <<<<2, 10>>, <<1, 5>>>>))
           [] OTHER -> FloatNaN,
     LastUpdateNew |-> IF layout \in {"new", "both"} THEN Str(s) ELSE FloatNaN]

\* Line 274: row['Last Update'] if type(row['Last Update']) == str else
\* row['Last_Update'].
LastUpdate(row) ==
    IF row.LastUpdateOld.type = "str" THEN row.LastUpdateOld ELSE row.LastUpdateNew

\* re.match of '^[0-9]{a,b}<sep>[0-9]{a,b}<sep>...$': lens[i] is the set of
\* the lengths {a..b} allowed for the i-th run, seps[i] the character after it.
RegMatch(lens, seps, s) ==
    /\ Len(s) = 2 * Len(lens) - 1
    /\ \A i \in 1..Len(lens) : s[2 * i - 1][1] \in lens[i]
    /\ \A i \in 1..Len(seps) : s[2 * i] = seps[i]

\* Lines 288-291.
reg_mmddyyHHMM(s) ==
    RegMatch(<<{1, 2}, {1, 2}, {2}, {1, 2}, {1, 2}>>, <<"/", "/", " ", ":">>, s)
reg_mmddyyyyHHMM(s) ==
    RegMatch(<<{1, 2}, {1, 2}, {4}, {1, 2}, {1, 2}>>, <<"/", "/", " ", ":">>, s)
reg_yyyymmddTHHMMSS(s) ==
    RegMatch(<<{4}, {1, 2}, {1, 2}, {1, 2}, {1, 2}, {1, 2}>>,
             <<"-", "-", "T", ":", ":">>, s)
reg_yyyy_mm_dd_HHMMSS(s) ==
    RegMatch(<<{4}, {1, 2}, {1, 2}, {1, 2}, {1, 2}, {1, 2}>>,
             <<"-", "-", " ", ":", ":">>, s)

\* Lines 293-296: the directives of the four formats, in the order of the runs.
mmddyyHHMM == <<"m", "d", "y", "H", "M">>
mmddyyyyHHMM == <<"m", "d", "Y", "H", "M">>
yyyymmddTHHMMSS == <<"Y", "m", "d", "H", "M", "S">>
yyyy_mm_dd_HHMMSS == <<"Y", "m", "d", "H", "M", "S">>

IsLeap(y) == (y % 4 = 0 /\ y % 100 # 0) \/ y % 400 = 0

DaysInMonth(y, m) ==
    IF m = 2 THEN (IF IsLeap(y) THEN 29 ELSE 28)
    ELSE IF m \in {4, 6, 9, 11} THEN 30 ELSE 31

NoneValue == [tag |-> "None"]
ValueError == [tag |-> "ValueError"]
TypeError == [tag |-> "TypeError"]

\* datetime.strptime(s, fmt) for a string s that the regular expression of fmt
\* matches: the value of the run that stands for a directive, %y read in
\* 1969..2068 and a missing %S as 0; ValueError when the run does not match
\* the directive (%m 1..12, %d 1..31, %H 0..23, %M 0..59, %S 0..61) or the
\* fields are not a date-time (year 0, a day after the end of the month, a
\* second after 59).
strptime(s, fmt) ==
    LET Field(dir) ==
            IF \E i \in 1..Len(fmt) : fmt[i] = dir
            THEN s[2 * (CHOOSE i \in 1..Len(fmt) : fmt[i] = dir) - 1][2]
            ELSE 0
        yy == Field("y")
        year == IF \E i \in 1..Len(fmt) : fmt[i] = "Y" THEN Field("Y")
                ELSE IF yy <= 68 THEN 2000 + yy ELSE 1900 + yy
        month == Field("m")
        day == Field("d")
        hour == Field("H")
        minute == Field("M")
        second == Field("S")
    IN IF /\ month \in 1..12
          /\ day \in 1..31
          /\ hour \in 0..23
          /\ minute \in 0..59
          /\ second \in 0..61
          /\ year >= 1
          /\ day <= DaysInMonth(year, month)
          /\ second <= 59
       THEN [tag |-> "datetime", year |-> year, month |-> month, day |-> day,
             hour |-> hour, minute |-> minute, second |-> second]
       ELSE ValueError

\* Lines 298-307; re.match raises TypeError for a cell that is not a string.
convertLastUpdate(cell) ==
    IF cell.type # "str" THEN TypeError
    ELSE IF reg_mmddyyHHMM(cell.s) THEN strptime(cell.s, mmddyyHHMM)
    ELSE IF reg_mmddyyyyHHMM(cell.s) THEN strptime(cell.s, mmddyyyyHHMM)
    ELSE IF reg_yyyymmddTHHMMSS(cell.s) THEN strptime(cell.s, yyyymmddTHHMMSS)
    ELSE IF reg_yyyy_mm_dd_HHMMSS(cell.s) THEN strptime(cell.s, yyyy_mm_dd_HHMMSS)
    ELSE NoneValue

InitParse ==
    /\ InitTransform("convertLastUpdate")
    /\ \E layout \in Layouts, d \in DateRuns \X DateRuns \X DateRuns,
          ds \in DateSeps, ts \in TimeSeps,
          t \in (TimeRuns \X TimeRuns) \cup (TimeRuns \X TimeRuns \X TimeRuns) :
          rawDf = JhuRow(layout, MkString(d, ds, ts, t))

\* Lines 274 and 308 for the row: the value of LastUpdateDatetime, or the
\* exception that leaves df.apply and processJHUProvinceState.
ApplyConvertLastUpdate ==
    /\ pc = "read"
    /\ LET r == convertLastUpdate(LastUpdate(rawDf))
       IN IF r.tag \in {"ValueError", "TypeError"}
          THEN exc' = r.tag /\ outDf' = outDf
          ELSE exc' = exc /\ outDf' = r
    /\ pc' = "done"
    /\ UNCHANGED rawDf
    /\ transformUnchanged

NextParse == ApplyConvertLastUpdate

SpecParse == InitParse /\ [][NextParse]_vars

(***************************************************************************)
(* Auxiliary definitions of the properties.                                *)
(***************************************************************************)
IsJhuUrl(u) == u[1] = sources["JHU"][1].url[1]

\* The URLs of the registry in the order of its loops, the JHU provider
\* standing for the days from..to.
RECURSIVE RegistryUrls(_, _, _)
RegistryUrls(i, from, to) ==
    IF i > Len(Providers) THEN <<>>
    ELSE (IF Providers[i] = "JHU"
          THEN [d \in 1..(to - from + 1) |-> JhuUrl(from + d - 1)]
          ELSE [x \in 1..Len(sources[Providers[i]]) |-> sources[Providers[i]][x].url])
         \o RegistryUrls(i + 1, from, to)

\* The (provider, dataset) pairs of the providers other than JHU.
NonJhuDatasets ==
    {pd \in (1..Len(Providers)) \X (1..3) :
        /\ Providers[pd[1]] # "JHU"
        /\ pd[2] <= Len(sources[Providers[pd[1]]])}

\* The staging name the processing run reads for a dataset (line 249) and for
\* a JHU day (lines 210-211).
ProcessReadName(pd) ==
    LET p == Providers[pd[1]]
        ds == sources[p][pd[2]]
    IN getFilename(p, ds.url, ds.key)

ReadNameOfUrl(u) ==
    IF IsJhuUrl(u)
    THEN JhuProcessFilename(CHOOSE d \in Days : JhuUrl(d) = u)
    ELSE ProcessReadName(CHOOSE pd \in NonJhuDatasets :
                             sources[Providers[pd[1]]][pd[2]].url = u)

\* Two datasets, or days, are never read under the same staging name.
ReadNamesDiffer ==
    \A u1, u2 \in {sources[Providers[pd[1]]][pd[2]].url : pd \in NonJhuDatasets}
                   \cup {JhuUrl(d) : d \in Days} :
        u1 # u2 => ReadNameOfUrl(u1) # ReadNameOfUrl(u2)

\* The target filenames of one complete processing run, in order.
AllTargetNames ==
    [i \in 1..Cardinality(NonJhuDatasets) |->
        ProcessReadName(CHOOSE pd \in NonJhuDatasets :
            Cardinality({q \in NonJhuDatasets :
                q[1] < pd[1] \/ (q[1] = pd[1] /\ q[2] <= pd[2])}) = i)]
    \o <<JhuTargetName>>

\* The content c is held under an archive key of the target blob t.
HeldInArchive(t, c) ==
    \E d \in Days :
        LET a == Blob(archive, ArchiveFilename(Tail(t), d))
        IN a \in DOMAIN bucket /\ bucket[a] = c

(***************************************************************************)
(* C1.  One processing of a dataset whose staging read and transform       *)
(* succeed: the step that pushes to the target leaves the new canonical    *)
(* table at the target key; if no object was at the target key the         *)
(* archival was skipped, and if one was, the archive key was written       *)
(* before and holds what the target key held before the push.              *)
(***************************************************************************)
C1_ArchiveThenPublish ==
    [][Len(published') > Len(published) =>
          /\ bucket'[blobTarget] = Canonical(df)
          /\ IF blobTarget \in DOMAIN bucket
             THEN /\ archival = "archived"
                  /\ blobArchive \in DOMAIN bucket'
                  /\ bucket'[blobArchive] = bucket[blobTarget]
             ELSE archival = "absent"]_vars

(***************************************************************************)
(* C4.  When getData has returned, it has raised nothing and has requested *)
(* every URL of the registry, and every day of self.startDate..endDate of  *)
(* the JHU provider, whatever fetches and uploads failed on the way.       *)
(***************************************************************************)
C4_EveryDatasetAttempted ==
    (pc = "idle" /\ ran = "getData") =>
        /\ exc = "none"
        /\ fetched = RegistryUrls(1, startDate, endDate)

\* getData has returned after a run in which a dataset or day failed (its
\* blob is missing in staging) and the whole registry was requested.
C4_Witness ==
    /\ pc = "idle"
    /\ ran = "getData"
    /\ failures > 0
    /\ Len(fetched) >= 6
    /\ Cardinality(DOMAIN bucket) < Len(fetched)

(***************************************************************************)
(* C5.  A processing run in which the storage service answers every        *)
(* request is not aborted by a missing staging object: when processData is *)
(* over, the missing object has raised nothing, and a run that raised      *)
(* nothing has published every dataset of the registry.                    *)
(***************************************************************************)
C5_MissingStagingRecovered ==
    (pc = "idle" /\ ran = "processData" /\ failures = 0) =>
        /\ exc # "StagingNotFound"
        /\ exc = "none" => published = AllTargetNames

(***************************************************************************)
(* C6.  After the write of the archive copy has failed for a dataset, no   *)
(* step pushes that dataset to its target key: there is no publish without *)
(* archive.                                                                *)
(***************************************************************************)
C6_NoPublishWithoutArchive ==
    [][archival = "writeFailed" => ~(Len(published') > Len(published))]_vars

(***************************************************************************)
(* C7 as stated.  After successful processing runs, every content that     *)
(* was overwritten at a target key is held under an archive key of that    *)
(* target.                                                                 *)
(***************************************************************************)
C7_EveryOverwrittenContentHeld ==
    allRunsOk => \A oc \in overwritten : HeldInArchive(oc[1], oc[2])

(***************************************************************************)
(* C7 as amended.  After successful processing runs no two of whose        *)
(* archival events of one dataset fell on the same calendar day, every     *)
(* content that was overwritten at a target key is held under an archive   *)
(* key of that target.                                                     *)
(***************************************************************************)
C7_HeldWhenOneArchivalPerDay ==
    (allRunsOk /\ ~sameDayArchive) =>
        \A oc \in overwritten : HeldInArchive(oc[1], oc[2])

\* Two different contents of one target have been overwritten, on two days,
\* by successful runs.
C7_Witness ==
    /\ allRunsOk
    /\ ~sameDayArchive
    /\ \E t \in {oc[1] : oc \in overwritten} :
          /\ Cardinality({oc \in overwritten : oc[1] = t}) >= 2
          /\ Cardinality({ad \in archivedOn : ad[1] = t}) >= 2

(***************************************************************************)
(* C9.  When the loop of getJhuData ends, the call has requested the days  *)
(* of its range startDate..endDate, each once, in ascending order, and no  *)
(* other day.                                                              *)
(***************************************************************************)
C9_RangeAttempted ==
    (pc = "getJhuData" /\ jhuCur > jhuEnd) =>
        SelectSeq(fetched, IsJhuUrl) =
            [i \in 1..(jhuEnd - jhuStart + 1) |-> JhuUrl(jhuStart + i - 1)]

(***************************************************************************)
(* C10.  Every staging blob sits under the name the processing run reads   *)
(* for the dataset (or day) it was fetched from, the names of two datasets *)
(* or days differ, and what a processing run reads from staging for a      *)
(* dataset or day is a snapshot of that dataset or day.                    *)
(***************************************************************************)
C10_StagingKeysAgree ==
    /\ \A name \in DOMAIN bucket :
          name[1] = staging =>
              name = Blob(staging, ReadNameOfUrl(bucket[name].data[1][1]))
    /\ ReadNamesDiffer
    /\ pc = "publish" =>
          /\ Len(df.data) = 1
          /\ df.data[1][1] = sources[Providers[k]][j].url
    /\ pc = "processJHU" =>
          \A i \in 1..Len(df.data) :
              \E d \in JhuStartDate..(jhuCur - 1) : df.data[i][1] = JhuUrl(d)

\* A processing run has read its five datasets and two days of JHU from staging.
C10_Witness ==
    /\ pc = "processJHU"
    /\ jhuCur > jhuEnd
    /\ Len(df.data) = 2
    /\ Len(published) = 5

(***************************************************************************)
(* C3.  The output of processDxyCovid19Country has exactly one row for     *)
(* each date of the input and no row of another date, and that row's       *)
(* counts are those of an input row with the greatest updateTime of the    *)
(* date.                                                                   *)
(***************************************************************************)
C3_OneRowPerDate ==
    (pc = "done" /\ ran = "processDxyCovid19Country") =>
        LET inDates == {ToDate(rawDf[i].updateTime) : i \in 1..Len(rawDf)}
        IN /\ \A i \in 1..Len(outDf) : outDf[i].date \in inDates
           /\ \A d \in inDates :
                 /\ Cardinality({i \in 1..Len(outDf) : outDf[i].date = d}) = 1
                 /\ \A i \in 1..Len(outDf) :
                       outDf[i].date = d =>
                           \E n \in 1..Len(rawDf) :
                               /\ ToDate(rawDf[n].updateTime) = d
                               /\ rawDf[n].confirmedCount = outDf[i].confirmed
                               /\ \A m \in 1..Len(rawDf) :
                                     ToDate(rawDf[m].updateTime) = d =>
                                         TimeLeq(rawDf[m].updateTime,
                                                 rawDf[n].updateTime)

(***************************************************************************)
(* C2.  In the output of processDxyCovid19Region, the confirmed counts of  *)
(* one (continent, country, province), ordered by date, never decrease.    *)
(***************************************************************************)
C2_ConfirmedNonDecreasing ==
    (pc = "done" /\ ran = "processDxyCovid19Region") =>
        \A a, b \in 1..Len(outDf) :
            (/\ outDf[a].country = outDf[b].country
             /\ outDf[a].province = outDf[b].province
             /\ outDf[a].date < outDf[b].date
             /\ outDf[a].province_confirmedCount # NaN
             /\ outDf[b].province_confirmedCount # NaN)
            => outDf[a].province_confirmedCount <= outDf[b].province_confirmedCount

(***************************************************************************)
(* C8.  convertLastUpdate never raises: for a string of one of the four    *)
(* documented shapes whose fields are in range it gives the date-time the  *)
(* string spells, and for every other cell an absent value.                *)
(***************************************************************************)
C8_ParsedOrAbsent ==
    (pc = "done" /\ ran = "convertLastUpdate") =>
        LET cell == LastUpdate(rawDf)
            s == cell.s
            slashed == cell.type = "str" /\ Len(s) = 9 /\ s[2] = "/" /\ s[4] = "/"
                       /\ s[6] = " " /\ s[8] = ":" /\ s[5][1] \in {2, 4}
                       /\ \A i \in {1, 3, 7, 9} : s[i][1] \in {1, 2}
            dashed == cell.type = "str" /\ Len(s) = 11 /\ s[2] = "-" /\ s[4] = "-"
                      /\ s[6] \in {"T", " "} /\ s[8] = ":" /\ s[10] = ":"
                      /\ s[1][1] = 4
                      /\ \A i \in {3, 5, 7, 9, 11} : s[i][1] \in {1, 2}
            year == IF slashed
                    THEN (IF s[5][1] = 4 THEN s[5][2]
                          ELSE IF s[5][2] <= 68 THEN 2000 + s[5][2] ELSE 1900 + s[5][2])
                    ELSE s[1][2]
            month == IF slashed THEN s[1][2] ELSE s[3][2]
            day == IF slashed THEN s[3][2] ELSE s[5][2]
            second == IF slashed THEN 0 ELSE s[11][2]
            spelled == [tag |-> "datetime", year |-> year, month |-> month,
                        day |-> day, hour |-> s[7][2], minute |-> s[9][2],
                        second |-> second]
            inRange == /\ year >= 1 /\ month \in 1..12
                       /\ day \in 1..DaysInMonth(year, month)
                       /\ s[7][2] \in 0..23 /\ s[9][2] \in 0..59 /\ second \in 0..59
        IN /\ exc = "none"
           /\ outDf = IF (slashed \/ dashed) /\ inRange THEN spelled ELSE NoneValue

====
